---- MODULE Spec2Model ----
(***************************************************************************)
(* JxFeedBot (multi_price_feeds.py): the startup validation, the startup   *)
(* ping and the poll loop (fetch -> compare -> notify -> sleep/backoff),   *)
(* with the signal-driven shutdown.                                        *)
(*                                                                         *)
(* Prices and MIN_ABS_MOVE are fixed-point numbers: an integer n stands    *)
(* for n / 10^ScaleDigits dollars.  The price values the model draws are   *)
(* either away from a rounding tie at every modelled precision or are      *)
(* exactly representable binary fractions (x.125, x.5), so that Python's   *)
(* round() on the float is the decimal round-half-even computed here.      *)
(* POLL_SECONDS is drawn from non-negative values only (a sleep length),   *)
(* PRICE_DECIMALS from non-negative values only (a format precision).      *)
(***************************************************************************)
EXTENDS Integers, Sequences, FiniteSets, TLC

VARIABLES
    BOT_TOKEN,       \* line 29
    CHANNELS,        \* lines 39-46
    POLL_SECONDS,    \* line 48
    PRICE_DECIMALS,  \* line 49
    MIN_ABS_MOVE,    \* line 50
    last_price,      \* line 74
    stop,            \* line 75 (_stop)
    backoff,         \* line 133, local of loop()
    items,           \* the part of prices.items() the for loop has not reached
    idx,             \* position of startup_ping in CHANNELS.items()
    pc,              \* where the main thread is
    exit_code,       \* how the process ended
    failed,          \* history: assets whose delivery failed in the current cycle
    event,           \* history: what the last step did
    missing,         \* history: assets the current cycle's response had no price for
    hist             \* history: the last two observations of the first asset

vars == <<BOT_TOKEN, CHANNELS, POLL_SECONDS, PRICE_DECIMALS, MIN_ABS_MOVE,
          last_price, stop, backoff, items, idx, pc, exit_code, failed, event,
          missing, hist>>

config == <<BOT_TOKEN, CHANNELS, POLL_SECONDS, PRICE_DECIMALS, MIN_ABS_MOVE>>

------------------------------------------------------------------------------
(* Bounds *)

NumAssets == 2
ScaleDigits == 3

------------------------------------------------------------------------------
(* Values *)

None == <<>>
Some(v) == <<v>>
Val(o) == o[1]

RECURSIVE Pow10(_)
Pow10(n) == IF n <= 0 THEN 1 ELSE 10 * Pow10(n - 1)

Unit == Pow10(ScaleDigits - 3)

AssetOrder == <<"BTC", "ETH", "BNB", "SOL", "XRP", "XPR">>
Symbols == SubSeq(AssetOrder, 1, NumAssets)
Assets == {Symbols[i] : i \in 1..NumAssets}

PriceChoices == {50000004 * Unit, 50000006 * Unit, 50000125 * Unit, 50000500 * Unit}
PollChoices == {0, 60, 300}
DecimalChoices == {0, 2}
MoveChoices == {-1000 * Unit, 0, 375 * Unit}

NoResponse == 0
TgStatuses == {NoResponse, 200, 429, 503}
CgErrorStatuses == {404, 429, 503}

Abs(x) == IF x < 0 THEN -x ELSE x

\* round(x, d) taken as a truncation to d digits
Round_Floor(x, d) == (x \div Pow10(ScaleDigits - d)) * Pow10(ScaleDigits - d)

\* round(x, d): the nearest multiple of 10^-d, an exact tie going to the even one
Round(x, d) ==
    LET step == Pow10(ScaleDigits - d)
        q == x \div step
        r == x % step
    IN  IF 2 * r < step THEN q * step
        ELSE IF 2 * r > step THEN (q + 1) * step
        ELSE IF q % 2 = 0 THEN q * step ELSE (q + 1) * step

\* int(x * 1.5) for an integer x >= 0
IntTimes1_5(x) == (3 * x) \div 2

Min(a, b) == IF a < b THEN a ELSE b
Max(a, b) == IF a > b THEN a ELSE b

Ev(op, sym, price, status, slept, was) ==
    [op |-> op, sym |-> sym, price |-> price, status |-> status,
     slept |-> slept, was |-> was]

------------------------------------------------------------------------------
(* Helpers of the program *)

raise_for_status(status) == status >= 400 /\ status < 600

\* tg_post returns normally (a response came and raise_for_status let it pass)
tg_post(status) == status # NoResponse /\ ~raise_for_status(status)

\* should_post without the comparison of the rounded prices (line 85)
should_post_ThresholdOnly(sym, new_price) ==
    LET prev == last_price[sym]
    IN  IF prev = None THEN TRUE
        ELSE IF MIN_ABS_MOVE > 0 /\ Abs(new_price - Val(prev)) < MIN_ABS_MOVE
             THEN FALSE
             ELSE TRUE

\* should_post with the threshold test written as <= instead of <
should_post_InclusiveThreshold(sym, new_price) ==
    LET prev == last_price[sym]
    IN  IF prev = None THEN TRUE
        ELSE IF Round(new_price, PRICE_DECIMALS) # Round(Val(prev), PRICE_DECIMALS)
             THEN IF MIN_ABS_MOVE > 0 /\ Abs(new_price - Val(prev)) <= MIN_ABS_MOVE
                  THEN FALSE
                  ELSE TRUE
             ELSE FALSE

should_post(sym, new_price) ==
    LET prev == last_price[sym]
    IN  IF prev = None THEN TRUE
        ELSE IF Round(new_price, PRICE_DECIMALS) # Round(Val(prev), PRICE_DECIMALS)
             THEN IF MIN_ABS_MOVE > 0 /\ Abs(new_price - Val(prev)) < MIN_ABS_MOVE
                  THEN FALSE
                  ELSE TRUE
             ELSE FALSE

\* post_price with the assignment of line 104 moved before the tg_post call
post_price_WriteFirst(sym, price, status) ==
    /\ last_price' = [last_price EXCEPT ![sym] = Some(price)]
    /\ failed' = IF tg_post(status) THEN failed ELSE failed \cup {sym}

\* post_price with an except branch that forgets the baseline of the asset
post_price_ClearOnFailure(sym, price, status) ==
    IF tg_post(status)
    THEN /\ last_price' = [last_price EXCEPT ![sym] = Some(price)]
         /\ UNCHANGED failed
    ELSE /\ last_price' = [last_price EXCEPT ![sym] = None]
         /\ failed' = failed \cup {sym}

\* post_price: last_price[sym] is written only after tg_post returned
post_price(sym, price, status) ==
    IF tg_post(status)
    THEN /\ last_price' = [last_price EXCEPT ![sym] = Some(price)]
         /\ UNCHANGED failed
    ELSE /\ UNCHANGED last_price
         /\ failed' = failed \cup {sym}

\* fetch_prices building its result from the last identifier to the first
RECURSIVE ItemsFrom_Reversed(_, _)
ItemsFrom_Reversed(data, i) ==
    IF i > NumAssets THEN <<>>
    ELSE IF data[Symbols[i]] # None
         THEN ItemsFrom_Reversed(data, i + 1) \o <<<<Symbols[i], Val(data[Symbols[i]])>>>>
         ELSE ItemsFrom_Reversed(data, i + 1)

\* fetch_prices giving an asset without a usd entry the price 0
RECURSIVE ItemsFrom_DefaultZero(_, _)
ItemsFrom_DefaultZero(data, i) ==
    IF i > NumAssets THEN <<>>
    ELSE IF data[Symbols[i]] # None
         THEN <<<<Symbols[i], Val(data[Symbols[i]])>>>> \o ItemsFrom_DefaultZero(data, i + 1)
         ELSE <<<<Symbols[i], 0>>>> \o ItemsFrom_DefaultZero(data, i + 1)

\* fetch_prices: the (sym, price) pairs of the response, in CG_IDS order
RECURSIVE ItemsFrom(_, _)
ItemsFrom(data, i) ==
    IF i > NumAssets THEN <<>>
    ELSE IF data[Symbols[i]] # None
         THEN <<<<Symbols[i], Val(data[Symbols[i]])>>>> \o ItemsFrom(data, i + 1)
         ELSE ItemsFrom(data, i + 1)

fetch_prices(data) == ItemsFrom(data, 1)

Responses == [Assets -> {None} \cup {Some(p) : p \in PriceChoices}]

\* line 154 without the floor of 30
NextBackoff_NoFloor(b) == Min(IntTimes1_5(b), 180)

\* line 154 with the ceiling mistyped
NextBackoff_WrongCeiling(b) == Min(Max(IntTimes1_5(b), 30), 1800)

\* line 154 with the product rounded up instead of truncated
NextBackoff_RoundUp(b) == Min(Max((3 * b + 1) \div 2, 30), 180)

\* line 154
NextBackoff(b) == Min(Max(IntTimes1_5(b), 30), 180)

\* line 153 taking every client and server error as retryable
RetryableStatuses_All == {404, 429, 500, 502, 503, 504}

RetryableStatuses == {429, 500, 502, 503, 504}

------------------------------------------------------------------------------
(* Initial states *)

InitWith(polls, decimals, moves) ==
    /\ BOT_TOKEN \in {"", "token"}
    /\ CHANNELS \in [Assets -> {"", "@chan"}]
    /\ POLL_SECONDS \in polls
    /\ PRICE_DECIMALS \in decimals
    /\ MIN_ABS_MOVE \in moves
    /\ last_price = [s \in Assets |-> None]
    /\ stop = FALSE
    /\ backoff = None
    /\ items = <<>>
    /\ idx = 1
    /\ pc = "import"
    /\ exit_code = "running"
    /\ failed = {}
    /\ event = Ev("none", "", None, NoResponse, None, None)
    /\ missing = {}
    /\ hist = <<>>

\* the default deployment (POLL_SECONDS=60, PRICE_DECIMALS=2) with and without a threshold
Init == InitWith({60}, {2}, {0, 375 * Unit})

\* every poll interval, the default detector settings
InitBackoff == InitWith(PollChoices, {2}, {0})

\* every detector setting, the default poll interval
InitDetect == InitWith({60}, DecimalChoices, MoveChoices)

\* the default deployment without a threshold and with one of 0.4
InitWatch == InitWith({60}, {2}, {0, 400 * Unit})

------------------------------------------------------------------------------
(* Steps *)

\* lines 29-31
CheckToken ==
    /\ pc = "import"
    /\ IF BOT_TOKEN = ""
       THEN pc' = "aborted" /\ exit_code' = "nonzero"
       ELSE pc' = "main" /\ UNCHANGED exit_code
    /\ event' = Ev("check_token", "", None, NoResponse, None, None)
    /\ UNCHANGED <<config, last_price, stop, backoff, items, idx, failed>>

\* __main__ without the validation of lines 176-178
CheckChannels_NoValidation ==
    /\ pc = "main"
    /\ pc' = "ping"
    /\ event' = Ev("check_channels", "", None, NoResponse, None, None)
    /\ UNCHANGED <<config, last_price, stop, backoff, items, idx, exit_code, failed>>

\* lines 176-181
CheckChannels ==
    /\ pc = "main"
    /\ IF \E s \in Assets : CHANNELS[s] = ""
       THEN pc' = "aborted" /\ exit_code' = "nonzero"
       ELSE pc' = "ping" /\ UNCHANGED exit_code
    /\ event' = Ev("check_channels", "", None, NoResponse, None, None)
    /\ UNCHANGED <<config, last_price, stop, backoff, items, idx, failed>>

\* lines 110-119, one channel
StartupPing(status) ==
    /\ pc = "ping"
    /\ idx <= NumAssets
    /\ idx' = idx + 1
    /\ event' = Ev(IF CHANNELS[Symbols[idx]] = "" THEN "ping_skip" ELSE "ping",
                   Symbols[idx], None, status, None, None)
    /\ UNCHANGED <<config, last_price, stop, backoff, items, pc, exit_code, failed>>

\* lines 132-134
EnterLoop ==
    /\ pc = "ping"
    /\ idx > NumAssets
    /\ backoff' = Some(POLL_SECONDS)
    /\ pc' = "loop"
    /\ event' = Ev("enter_loop", "", None, NoResponse, None, None)
    /\ UNCHANGED <<config, last_price, stop, items, idx, exit_code, failed>>

\* lines 135-137: the fetch returned a mapping
FetchOK(data) ==
    /\ pc = "loop"
    /\ ~stop
    /\ items' = fetch_prices(data)
    /\ failed' = {}
    /\ pc' = "assets"
    /\ event' = Ev("fetch_ok", "", None, 200, None, None)
    /\ UNCHANGED <<config, last_price, stop, backoff, idx, exit_code>>

\* the HTTPError handler also dropping the baselines
FetchHTTPError_ResetBaseline(status) ==
    /\ pc = "loop"
    /\ ~stop
    /\ raise_for_status(status)
    /\ IF status \in RetryableStatuses
       THEN backoff' = Some(NextBackoff(Val(backoff)))
       ELSE UNCHANGED backoff
    /\ event' = Ev("fetch_http_error", "", None, status, backoff', backoff)
    /\ failed' = {}
    /\ last_price' = [s \in Assets |-> None]
    /\ UNCHANGED <<config, stop, items, idx, pc, exit_code>>

\* lines 151-159: fetch_prices raised requests.HTTPError
FetchHTTPError(status) ==
    /\ pc = "loop"
    /\ ~stop
    /\ raise_for_status(status)
    /\ IF status \in RetryableStatuses
       THEN backoff' = Some(NextBackoff(Val(backoff)))
       ELSE UNCHANGED backoff
    /\ event' = Ev("fetch_http_error", "", None, status, backoff', backoff)
    /\ failed' = {}
    /\ UNCHANGED <<config, last_price, stop, items, idx, pc, exit_code>>

\* the loop without the handler of lines 160-162: the exception leaves loop()
FetchException_Uncaught ==
    /\ pc = "loop"
    /\ ~stop
    /\ pc' = "crashed"
    /\ exit_code' = "nonzero"
    /\ event' = Ev("fetch_exception", "", None, NoResponse, None, backoff)
    /\ failed' = {}
    /\ UNCHANGED <<config, last_price, stop, backoff, items, idx>>

\* lines 160-162: fetch_prices raised anything else
FetchException ==
    /\ pc = "loop"
    /\ ~stop
    /\ event' = Ev("fetch_exception", "", None, NoResponse, backoff, backoff)
    /\ failed' = {}
    /\ UNCHANGED <<config, last_price, stop, backoff, items, idx, pc, exit_code>>

\* post_price without its try/except: a failed delivery ends the cycle in the
\* handler of lines 160-162
NotifyItem_Propagates(status) ==
    /\ pc = "assets"
    /\ items # <<>>
    /\ LET sym == Head(items)[1]
           price == Head(items)[2]
       IN  /\ CHANNELS[sym] # ""
           /\ last_price[sym] = None \/ should_post(sym, price)
           /\ post_price(sym, price, status)
           /\ event' = Ev("notify", sym, Some(price), status, None, None)
    /\ IF tg_post(status)
       THEN items' = Tail(items) /\ UNCHANGED pc
       ELSE items' = <<>> /\ pc' = "loop"
    /\ UNCHANGED <<config, stop, backoff, idx, exit_code>>

\* lines 138-148, one (sym, price) that is posted
NotifyItem(status) ==
    /\ pc = "assets"
    /\ items # <<>>
    /\ LET sym == Head(items)[1]
           price == Head(items)[2]
       IN  /\ CHANNELS[sym] # ""
           /\ last_price[sym] = None \/ should_post(sym, price)
           /\ post_price(sym, price, status)
           /\ event' = Ev("notify", sym, Some(price), status, None, None)
    /\ items' = Tail(items)
    /\ UNCHANGED <<config, stop, backoff, idx, pc, exit_code>>

\* the loop taking a suppressed price as the new baseline
SkipItem_AdoptObserved ==
    /\ pc = "assets"
    /\ items # <<>>
    /\ LET sym == Head(items)[1]
           price == Head(items)[2]
       IN  /\ CHANNELS[sym] = "" \/ (last_price[sym] # None /\ ~should_post(sym, price))
           /\ last_price' = [last_price EXCEPT ![sym] = Some(price)]
           /\ event' = Ev("skip", sym, Some(price), NoResponse, None, None)
    /\ items' = Tail(items)
    /\ UNCHANGED <<config, stop, backoff, idx, pc, exit_code, failed>>

\* lines 138-148, one (sym, price) that is not posted
SkipItem ==
    /\ pc = "assets"
    /\ items # <<>>
    /\ LET sym == Head(items)[1]
           price == Head(items)[2]
       IN  /\ CHANNELS[sym] = "" \/ (last_price[sym] # None /\ ~should_post(sym, price))
           /\ event' = Ev("skip", sym, Some(price), NoResponse, None, None)
    /\ items' = Tail(items)
    /\ UNCHANGED <<config, last_price, stop, backoff, idx, pc, exit_code, failed>>

\* lines 149-150 without the reset of line 150, sleeping the current backoff
EndCycle_NoReset ==
    /\ pc = "assets"
    /\ items = <<>>
    /\ pc' = "loop"
    /\ event' = Ev("cycle_end", "", None, NoResponse, backoff, backoff)
    /\ UNCHANGED <<config, last_price, stop, backoff, items, idx, exit_code, failed>>

\* lines 149-150
EndCycle ==
    /\ pc = "assets"
    /\ items = <<>>
    /\ backoff' = Some(POLL_SECONDS)
    /\ pc' = "loop"
    /\ event' = Ev("cycle_end", "", None, NoResponse, Some(POLL_SECONDS), backoff)
    /\ UNCHANGED <<config, last_price, stop, items, idx, exit_code, failed>>

\* shutdown without the sys.exit(0) of line 171: only the flag is set
shutdown_FlagOnly ==
    /\ pc \in {"ping", "loop", "assets"}
    /\ ~stop
    /\ stop' = TRUE
    /\ event' = Ev("shutdown", "", None, NoResponse, None, None)
    /\ UNCHANGED <<config, last_price, backoff, items, idx, pc, exit_code, failed>>

\* lines 164-171, installed at lines 180-181
shutdown ==
    /\ pc \in {"ping", "loop", "assets"}
    /\ stop' = TRUE
    /\ pc' = "exited"
    /\ exit_code' = "zero"
    /\ event' = Ev("shutdown", "", None, NoResponse, None, None)
    /\ UNCHANGED <<config, last_price, backoff, items, idx, failed>>

\* the history of responses and observations is not kept
Unobserved == UNCHANGED <<missing, hist>>

Next ==
    \/ CheckToken /\ Unobserved
    \/ CheckChannels /\ Unobserved
    \/ \E status \in TgStatuses : StartupPing(status) /\ Unobserved
    \/ EnterLoop /\ Unobserved
    \/ \E data \in Responses : FetchOK(data) /\ Unobserved
    \/ \E status \in CgErrorStatuses : FetchHTTPError(status) /\ Unobserved
    \/ FetchException /\ Unobserved
    \/ \E status \in TgStatuses : NotifyItem(status) /\ Unobserved
    \/ SkipItem /\ Unobserved
    \/ EndCycle /\ Unobserved
    \/ shutdown /\ Unobserved

Spec == Init /\ [][Next]_vars
SpecBackoff == InitBackoff /\ [][Next]_vars
SpecDetect == InitDetect /\ [][Next]_vars

\* The same steps with the history kept.  The first asset takes every price;
\* the other assets are priced 50000.004 or are missing from the response.
Watched == Symbols[1]

WatchResponses ==
    {data \in Responses :
        \A s \in Assets \ {Watched} : data[s] \in {None, Some(50000004 * Unit)}}

Observation(e, slot) ==
    [price |-> Val(e.price), base |-> slot, op |-> e.op, delivered |-> tg_post(e.status)]

Observe ==
    /\ missing' = IF event'.op \in {"fetch_http_error", "fetch_exception"}
                  THEN {} ELSE missing
    /\ hist' = IF event'.op \in {"notify", "skip"} /\ event'.sym = Watched
               THEN <<Observation(event', last_price[Watched])>>
                        \o SubSeq(hist, 1, Min(Len(hist), 1))
               ELSE hist

ObserveFetch(data) ==
    /\ missing' = {s \in Assets : data[s] = None}
    /\ UNCHANGED hist

NextWatch ==
    \/ CheckToken /\ Observe
    \/ CheckChannels /\ Observe
    \/ \E status \in TgStatuses : StartupPing(status) /\ Observe
    \/ EnterLoop /\ Observe
    \/ \E data \in WatchResponses : FetchOK(data) /\ ObserveFetch(data)
    \/ \E status \in CgErrorStatuses : FetchHTTPError(status) /\ Observe
    \/ FetchException /\ Observe
    \/ \E status \in TgStatuses : NotifyItem(status) /\ Observe
    \/ SkipItem /\ Observe
    \/ EndCycle /\ Observe
    \/ shutdown /\ Observe

SpecWatch == InitWatch /\ [][NextWatch]_vars

------------------------------------------------------------------------------
(* Properties *)

InLoop == pc \in {"loop", "assets"}

Delivered(e) == e.op = "notify" /\ e.status # NoResponse /\ ~(e.status >= 400 /\ e.status < 600)

FetchFailed(e) == e.op \in {"fetch_http_error", "fetch_exception"}

RetryableFailure(e) == e.op = "fetch_http_error" /\ e.status \in {429, 500, 502, 503, 504}

\* the rule of the change detector for a recorded price p1 and a new price p2
Qualifies(p1, p2) ==
    /\ Round(p1, PRICE_DECIMALS) # Round(p2, PRICE_DECIMALS)
    /\ (MIN_ABS_MOVE <= 0 \/ Abs(p2 - p1) >= MIN_ABS_MOVE)

TypeOK ==
    /\ pc \in {"import", "main", "ping", "loop", "assets", "aborted", "exited"}
    /\ last_price \in [Assets -> {None} \cup {Some(p) : p \in PriceChoices}]
    /\ stop \in BOOLEAN
    /\ failed \subseteq Assets
    /\ exit_code \in {"running", "zero", "nonzero"}
    /\ InLoop => Val(backoff) \in 0..300

\* C1: last_price[sym] changes only in a step that delivered a notification for
\* sym, and its new value is the price just notified; no other step (a failed
\* delivery, a failed fetch, the startup ping, a suppressed price) writes a slot.
C1_LastPriceWrittenOnlyOnDelivery ==
    [][\A s \in Assets :
         last_price'[s] # last_price[s] =>
            /\ Delivered(event')
            /\ event'.sym = s
            /\ last_price'[s] = event'.price]_vars

C1_Witness ==
    /\ Delivered(event)
    /\ last_price[event.sym] = event.price
    /\ \E s \in Assets : s # event.sym /\ s \in failed /\ last_price[s] = None

\* C2 as stated: for every poll interval, P <= backoff <= 180 while the loop runs.
C2_Original ==
    InLoop => (POLL_SECONDS <= Val(backoff) /\ Val(backoff) <= 180)

\* C2 (amended): for every poll interval P <= 180, P <= backoff <= 180 while the
\* loop runs, and every sleep of the loop lasts between P and 180 seconds.
C2_BackoffWithinBounds ==
    (InLoop /\ POLL_SECONDS <= 180) =>
        /\ POLL_SECONDS <= Val(backoff)
        /\ Val(backoff) <= 180
        /\ event.slept # None =>
              (POLL_SECONDS <= Val(event.slept) /\ Val(event.slept) <= 180)

C2_Witness ==
    /\ InLoop
    /\ POLL_SECONDS = 0
    /\ RetryableFailure(event)
    /\ event.was = Some(150)
    /\ backoff = Some(180)
    /\ event.slept = Some(180)

\* C3 as stated: a retryable fetch failure replaces backoff by
\* clamp(backoff * 1.5, 30, 180), the product taken exactly, and sleeps that long.
C3_Original ==
    [][RetryableFailure(event') =>
          /\ 2 * Val(backoff') = Min(Max(3 * Val(backoff), 2 * 30), 2 * 180)
          /\ event'.slept = backoff']_vars

\* C3 (amended): a retryable fetch failure replaces backoff by
\* clamp(floor(backoff * 1.5), 30, 180) and sleeps for the new value without
\* resetting; from P = 60 the values are 90, 135, 180, and a successful cycle
\* gives 60 again.
C3_RetryableBackoffStep ==
    [][/\ RetryableFailure(event') =>
            /\ Val(backoff') = Min(Max((3 * Val(backoff)) \div 2, 30), 180)
            /\ event'.slept = backoff'
            /\ pc' = "loop"
            /\ backoff = Some(60) => backoff' = Some(90)
            /\ backoff = Some(90) => backoff' = Some(135)
            /\ backoff = Some(135) => backoff' = Some(180)
       /\ event'.op = "cycle_end" => backoff' = Some(POLL_SECONDS)]_vars

C3_Witness ==
    /\ RetryableFailure(event)
    /\ event.was = Some(45)
    /\ backoff = Some(67)
    /\ event.slept = Some(67)

\* C4: a cycle whose fetch succeeded ends by sleeping exactly P seconds and with
\* backoff = P, whatever backoff was before and whatever the deliveries did.
C4_SuccessfulCycleResets ==
    [][(pc = "assets" /\ pc' # "assets" /\ event'.op # "shutdown") =>
          /\ event'.op = "cycle_end"
          /\ event'.slept = Some(POLL_SECONDS)
          /\ backoff' = Some(POLL_SECONDS)
          /\ pc' = "loop"]_vars

C4_Witness ==
    /\ event.op = "cycle_end"
    /\ event.was = Some(180)
    /\ POLL_SECONDS = 60
    /\ backoff = Some(60)
    /\ failed = Assets

\* C5: a fetch error that is not an HTTP error with a retryable status leaves
\* backoff and last_price unchanged and sleeps for the current backoff.
C5_OtherErrorKeepsBackoff ==
    [][(FetchFailed(event') /\ ~RetryableFailure(event')) =>
          /\ backoff' = backoff
          /\ event'.slept = backoff
          /\ last_price' = last_price
          /\ pc' = "loop"]_vars

C5_Witness ==
    /\ event.op = "fetch_http_error"
    /\ event.status = 404
    /\ POLL_SECONDS = 60
    /\ backoff = Some(90)
    /\ event.slept = Some(90)
    /\ \E s \in Assets : last_price[s] # None

\* C6: the running loop leaves the Running state only by the termination signal:
\* after every cycle, whatever happened in it, the loop tests _stop, finds it
\* false and begins another cycle.
C6_OnlyShutdownLeavesRunning ==
    /\ [](pc = "loop" => ~stop)
    /\ [][InLoop => (pc' \in {"loop", "assets"} \/ event'.op = "shutdown")]_vars
    /\ [][(InLoop /\ event'.op # "shutdown") => exit_code' = "running"]_vars

C6_Witness ==
    /\ pc = "loop"
    /\ event.op = "fetch_exception"
    /\ exit_code = "running"
    /\ ~stop

\* C7: a failed delivery leaves that asset's slot unchanged and the loop goes on
\* with the next asset of the same cycle; each asset is compared against its own
\* slot and its slot is written from its own delivery alone, and the cycle ends
\* as a successful cycle.
C7_DeliveryFailureIsLocal ==
    /\ [][(pc = "assets" /\ items # <<>> /\ event'.op # "shutdown") =>
            LET sym == Head(items)[1]
                price == Head(items)[2]
            IN  /\ event'.sym = sym
                /\ event'.price = Some(price)
                /\ event'.op \in {"notify", "skip"}
                /\ (event'.op = "notify") =
                      (last_price[sym] = None \/ Qualifies(Val(last_price[sym]), price))
                /\ items' = Tail(items)
                /\ pc' = "assets"
                /\ last_price' = IF Delivered(event')
                                 THEN [last_price EXCEPT ![sym] = Some(price)]
                                 ELSE last_price]_vars
    /\ [][(pc = "assets" /\ items = <<>> /\ failed # {} /\ event'.op # "shutdown") =>
            /\ event'.op = "cycle_end"
            /\ backoff' = Some(POLL_SECONDS)
            /\ pc' = "loop"]_vars

C7_Witness ==
    /\ Delivered(event)
    /\ event.sym = Symbols[2]
    /\ Symbols[1] \in failed
    /\ last_price[Symbols[1]] # None
    /\ last_price[Symbols[1]] # event.price
    /\ last_price[Symbols[2]] = event.price

\* C8: a cycle whose fetch fails attempts no notification and changes no slot:
\* the step after it is the next fetch (or the shutdown), which finds last_price
\* as it was, and a successful cycle resets backoff to P.
C8_FailedFetchTouchesNothing ==
    /\ [][FetchFailed(event') =>
            /\ last_price' = last_price
            /\ items = <<>>
            /\ items' = <<>>
            /\ pc' = "loop"]_vars
    /\ [][FetchFailed(event) =>
            event'.op \in {"fetch_ok", "fetch_http_error", "fetch_exception", "shutdown"}]_vars
    /\ [][event'.op = "cycle_end" => backoff' = Some(POLL_SECONDS)]_vars

C8_Witness ==
    /\ event.op = "fetch_http_error"
    /\ event.status = 429
    /\ backoff = Some(90)
    /\ \A s \in Assets : last_price[s] # None

\* C9: for a recorded price p1 and any new price p2, should_post is true exactly
\* when round(p1, d) # round(p2, d) and (min_abs_move <= 0 or |p2 - p1| >= min_abs_move).
C9_ShouldPostRule ==
    \A s \in Assets : \A p2 \in PriceChoices :
        last_price[s] # None =>
            (should_post(s, p2) <=> Qualifies(Val(last_price[s]), p2))

C9_Witness ==
    /\ event.op = "skip"
    /\ last_price[event.sym] # None
    /\ MIN_ABS_MOVE > 0
    /\ Round(Val(event.price), PRICE_DECIMALS) # Round(Val(last_price[event.sym]), PRICE_DECIMALS)
    /\ Abs(Val(event.price) - Val(last_price[event.sym])) < MIN_ABS_MOVE
    /\ ~should_post(event.sym, Val(event.price))

\* C10: while an asset's slot is unset, should_post is true for every price and
\* every fetched price of the asset is posted; the slot leaves the unset state
\* only by a successful delivery, so a failed first post is attempted again.
C10_UnsetSlotAlwaysPosts ==
    /\ [](\A s \in Assets : \A p \in PriceChoices :
            last_price[s] = None => should_post(s, p))
    /\ [][(pc = "assets" /\ items # <<>> /\ event'.op # "shutdown"
              /\ last_price[Head(items)[1]] = None) =>
            /\ event'.op = "notify"
            /\ event'.sym = Head(items)[1]
            /\ event'.price = Some(Head(items)[2])
            /\ (last_price'[Head(items)[1]] # None) = Delivered(event')]_vars
    /\ [][\A s \in Assets :
            (last_price[s] = None /\ last_price'[s] # None) =>
                (Delivered(event') /\ event'.sym = s)]_vars

C10_Witness ==
    /\ event.op = "notify"
    /\ ~Delivered(event)
    /\ event.sym = Symbols[1]
    /\ last_price[Symbols[1]] = None
    /\ last_price[Symbols[2]] # None

\* C11 as stated: with decimals=2 and min_abs_move=0, after 50000.004 was notified
\* an observation of 50000.006 rounds to the same value and is not notified.
C11_Original ==
    [][(/\ pc = "assets" /\ items # <<>>
        /\ PRICE_DECIMALS = 2 /\ MIN_ABS_MOVE = 0
        /\ last_price[Head(items)[1]] = Some(50000004 * Unit)
        /\ Head(items)[2] = 50000006 * Unit
        /\ event'.op # "shutdown") =>
          /\ Round(50000004 * Unit, 2) = Round(50000006 * Unit, 2)
          /\ event'.op = "skip"]_vars

\* C11 (amended): with decimals=2 and min_abs_move=0, after 50000.004 was notified
\* an observation of 50000.006 rounds to a different value (50000.00 against
\* 50000.01) and a second notification is attempted for that asset.
C11_SecondNotificationSent ==
    [][(/\ pc = "assets" /\ items # <<>>
        /\ PRICE_DECIMALS = 2 /\ MIN_ABS_MOVE = 0
        /\ last_price[Head(items)[1]] = Some(50000004 * Unit)
        /\ Head(items)[2] = 50000006 * Unit
        /\ event'.op # "shutdown") =>
          /\ Round(50000004 * Unit, 2) = 50000000 * Unit
          /\ Round(50000006 * Unit, 2) = 50000010 * Unit
          /\ event'.op = "notify"
          /\ event'.sym = Head(items)[1]
          /\ event'.price = Some(50000006 * Unit)]_vars

C11_Witness ==
    /\ PRICE_DECIMALS = 2 /\ MIN_ABS_MOVE = 0
    /\ Len(hist) = 2
    /\ hist[2] = [price |-> 50000004 * Unit, base |-> None, op |-> "notify", delivered |-> TRUE]
    /\ hist[1] = [price |-> 50000006 * Unit, base |-> Some(50000004 * Unit),
                  op |-> "notify", delivered |-> TRUE]
    /\ event.op = "notify" /\ event.sym = Watched
    /\ last_price[Watched] = Some(50000006 * Unit)

\* C12: the termination signal is handled wherever the main thread is once the
\* handlers are installed (startup ping, fetch, between notifications, sleep);
\* after it no fetch and no notification call is made, nothing that failed is
\* tried again, and the process has exited with code zero.
C12_NoCallAfterShutdown ==
    /\ [](pc \in {"ping", "loop", "assets"} => ENABLED shutdown)
    /\ [](stop => (pc = "exited" /\ exit_code = "zero"))
    /\ [][event'.op = "shutdown" =>
            /\ stop'
            /\ last_price' = last_price
            /\ items' = items
            /\ failed' = failed]_vars
    /\ [][stop =>
            event'.op \notin {"ping", "fetch_ok", "fetch_http_error", "fetch_exception", "notify"}]_vars
    /\ [][~stop]_vars

C12_Witness ==
    /\ event.op = "shutdown"
    /\ stop
    /\ pc = "exited"
    /\ exit_code = "zero"
    /\ items # <<>>
    /\ failed # {}

\* C13: the startup ping, the first fetch and every notification happen only
\* with a non-empty credential and a non-empty channel for every asset; any
\* other configuration aborts with a non-zero exit code before the loop begins.
ValidConfig == BOT_TOKEN # "" /\ \A s \in Assets : CHANNELS[s] # ""

C13_LoopOnlyWithValidConfig ==
    /\ pc \in {"ping", "loop", "assets"} => ValidConfig
    /\ event.op \in {"ping", "ping_skip", "enter_loop", "fetch_ok", "fetch_http_error",
                     "fetch_exception", "notify", "skip", "cycle_end"} => ValidConfig
    /\ (~ValidConfig /\ pc \notin {"import", "main"}) =>
          /\ pc = "aborted"
          /\ exit_code = "nonzero"
          /\ backoff = None
          /\ idx = 1
    /\ pc = "aborted" => ~ValidConfig

C13_Witness ==
    /\ pc = "aborted"
    /\ exit_code = "nonzero"
    /\ BOT_TOKEN # ""
    /\ CHANNELS[Symbols[1]] # ""
    /\ CHANNELS[Symbols[2]] = ""
    /\ event.op = "check_channels"

\* C14: in every cycle the fetched assets are compared and notified in the
\* configured order (BTC, ETH, BNB, SOL, XRP, XPR): what is left of the cycle
\* is always later in that order than what was processed, also when assets are
\* missing from the response.
Index(sym) == CHOOSE i \in 1..NumAssets : Symbols[i] = sym

C14_ConfiguredOrder ==
    /\ [](\A i \in 1..Len(items) : \A j \in 1..Len(items) :
            i < j => Index(items[i][1]) < Index(items[j][1]))
    /\ [][(pc = "assets" /\ items # <<>> /\ event'.op # "shutdown") =>
            /\ event'.op \in {"notify", "skip"}
            /\ event'.sym = Head(items)[1]
            /\ \A k \in 1..Len(items') : Index(event'.sym) < Index(items'[k][1])]_vars
    /\ [][(event.op \in {"notify", "skip"} /\ event'.op \in {"notify", "skip"}) =>
            Index(event.sym) < Index(event'.sym)]_vars

C14_Witness ==
    /\ event.op = "notify"
    /\ event.sym = Symbols[2]
    /\ Symbols[1] \in failed
    /\ items = <<>>
    /\ pc = "assets"

\* C15: last_price has exactly one slot per configured asset in every state,
\* every slot is unset when the loop starts, and a slot that has been set is
\* never unset again nor removed, whatever the fetches and deliveries do.
C15_SlotsOnlyUpdated ==
    /\ [](DOMAIN last_price = Assets)
    /\ [](pc \in {"import", "main", "ping"} => \A s \in Assets : last_price[s] = None)
    /\ [][event'.op = "enter_loop" => \A s \in Assets : last_price'[s] = None]_vars
    /\ [][DOMAIN last_price' = DOMAIN last_price]_vars
    /\ [][\A s \in Assets : last_price[s] # None => last_price'[s] # None]_vars

C15_Witness ==
    /\ event.op = "notify"
    /\ ~Delivered(event)
    /\ last_price[event.sym] # None
    /\ last_price[event.sym] # event.price
    /\ \E s \in Assets : last_price[s] = None

\* C16: when a successful response lacks the entry of a configured asset, that
\* asset gets no notification attempt and keeps its last_price slot during the
\* cycle; the assets that are present are each compared and notified by the
\* usual rule, and the cycle ends as a successful one, with backoff reset to
\* POLL_SECONDS.
C16_MissingEntriesTolerated ==
    /\ [][event'.op = "fetch_ok" =>
            /\ {items'[k][1] : k \in 1..Len(items')} = Assets \ missing'
            /\ Len(items') = Cardinality(Assets \ missing')]_vars
    /\ [][pc = "assets" =>
            /\ event'.op \in {"notify", "skip", "cycle_end", "shutdown"}
            /\ event'.op \in {"notify", "skip"} =>
                  /\ event'.sym \notin missing
                  /\ event'.sym = Head(items)[1]
                  /\ event'.price = Some(Head(items)[2])
                  /\ event'.op = "notify" <=>
                        \/ last_price[event'.sym] = None
                        \/ Qualifies(Val(last_price[event'.sym]), Head(items)[2])
            /\ \A s \in missing : last_price'[s] = last_price[s]
            /\ event'.op = "cycle_end" => backoff' = Some(POLL_SECONDS)]_vars
    /\ [](pc = "assets" /\ items = <<>> => ENABLED EndCycle)

C16_Witness ==
    /\ event.op = "cycle_end"
    /\ backoff = Some(POLL_SECONDS)
    /\ missing # {}
    /\ \E s \in missing : last_price[s] # None
    /\ \E s \in Assets \ missing : last_price[s] # None /\ s \notin failed

\* C17: after a failed delivery for an asset, the next observation of that asset
\* is compared against the same last notified price as before the failure: a
\* notification is attempted again exactly when the new price qualifies against
\* that price, and a price back at the last notified value is not notified and
\* leaves the slot as it was.
C17_FailedDeliveryKeepsBaseline ==
    /\ []((Len(hist) = 2 /\ hist[2].op = "notify" /\ ~hist[2].delivered) =>
            /\ hist[1].base = hist[2].base
            /\ hist[1].op = "notify" <=>
                  \/ hist[2].base = None
                  \/ Qualifies(Val(hist[2].base), hist[1].price)
            /\ (hist[2].base # None /\ hist[1].price = Val(hist[2].base)) =>
                  hist[1].op = "skip")
    /\ [][(event'.op = "notify" /\ ~Delivered(event')) \/ event'.op = "skip" =>
            last_price' = last_price]_vars
    /\ [][\A s \in Assets : s \in failed' => last_price'[s] = last_price[s]]_vars

C17_Witness ==
    /\ Len(hist) = 2
    /\ hist[2] = [price |-> 50000006 * Unit, base |-> Some(50000004 * Unit),
                  op |-> "notify", delivered |-> FALSE]
    /\ hist[1] = [price |-> 50000004 * Unit, base |-> Some(50000004 * Unit),
                  op |-> "skip", delivered |-> FALSE]
    /\ event.op = "skip" /\ event.sym = Watched
    /\ last_price[Watched] = Some(50000004 * Unit)

\* C18: for every asset, two consecutive delivered notifications carry prices
\* that differ once rounded to PRICE_DECIMALS digits.  The slot of an asset is
\* the price of its last delivered notification (it is written by deliveries
\* and by nothing else), and a delivery for an asset with a set slot carries a
\* price that rounds differently from the slot.
C18_NoRepeatedDisplayedPrice ==
    /\ [][\A s \in Assets : last_price'[s] # last_price[s] =>
            Delivered(event') /\ event'.sym = s]_vars
    /\ [][Delivered(event') => last_price'[event'.sym] = event'.price]_vars
    /\ [][(Delivered(event') /\ last_price[event'.sym] # None) =>
            Round(Val(event'.price), PRICE_DECIMALS)
                # Round(Val(last_price[event'.sym]), PRICE_DECIMALS)]_vars
    /\ []((Len(hist) >= 1 /\ hist[1].delivered /\ hist[1].base # None) =>
            Round(hist[1].price, PRICE_DECIMALS) # Round(Val(hist[1].base), PRICE_DECIMALS))

C18_Witness ==
    /\ Len(hist) = 2
    /\ hist[2] = [price |-> 50000004 * Unit, base |-> Some(50000004 * Unit),
                  op |-> "skip", delivered |-> FALSE]
    /\ hist[1] = [price |-> 50000006 * Unit, base |-> Some(50000004 * Unit),
                  op |-> "notify", delivered |-> TRUE]
    /\ last_price[Watched] = Some(50000006 * Unit)
    /\ Round(50000004 * Unit, PRICE_DECIMALS) # Round(50000006 * Unit, PRICE_DECIMALS)

\* C19: the baseline of the comparison is the last delivered price, not the last
\* observed one.  A suppressed observation leaves the slot as it was, so the
\* observation after it is compared against the same baseline; an observation
\* at least MIN_ABS_MOVE away from the baseline that rounds differently is
\* notified whatever the observations before it were; and a delivered price
\* after the first is at least MIN_ABS_MOVE away from the one delivered before.
C19_BaselineIsLastDelivered ==
    /\ [][event'.op = "skip" => last_price' = last_price]_vars
    /\ []((Len(hist) = 2 /\ ~hist[2].delivered) => hist[1].base = hist[2].base)
    /\ [][(/\ pc = "assets" /\ items # <<>> /\ event'.op # "shutdown"
           /\ MIN_ABS_MOVE > 0
           /\ last_price[Head(items)[1]] # None
           /\ Abs(Head(items)[2] - Val(last_price[Head(items)[1]])) >= MIN_ABS_MOVE
           /\ Round(Head(items)[2], PRICE_DECIMALS)
                 # Round(Val(last_price[Head(items)[1]]), PRICE_DECIMALS)) =>
            event'.op = "notify" /\ event'.sym = Head(items)[1]]_vars
    /\ [][(Delivered(event') /\ last_price[event'.sym] # None) =>
            Abs(Val(event'.price) - Val(last_price[event'.sym])) >= MIN_ABS_MOVE]_vars
    /\ []((Len(hist) >= 1 /\ hist[1].delivered /\ hist[1].base # None) =>
            Abs(hist[1].price - Val(hist[1].base)) >= MIN_ABS_MOVE)

C19_Witness ==
    /\ MIN_ABS_MOVE = 400 * Unit
    /\ Len(hist) = 2
    /\ hist[2] = [price |-> 50000125 * Unit, base |-> Some(50000500 * Unit),
                  op |-> "skip", delivered |-> FALSE]
    /\ hist[1] = [price |-> 50000004 * Unit, base |-> Some(50000500 * Unit),
                  op |-> "notify", delivered |-> TRUE]
    /\ Abs(hist[1].price - hist[2].price) < MIN_ABS_MOVE
    /\ last_price[Watched] = Some(50000004 * Unit)

\* C20: for a poll interval between 0 and 180, each retryable fetch failure
\* leaves backoff at least where it was and at least at the floor 30, raises it
\* strictly while it is below 180 (so 180 is reached after finitely many
\* failures), and keeps it at 180 once there; between failures only the end of
\* a successful cycle changes it.
C20_BackoffClimbsToCeiling ==
    /\ [][(RetryableFailure(event') /\ POLL_SECONDS >= 0 /\ POLL_SECONDS <= 180) =>
            /\ Val(backoff') >= Val(backoff)
            /\ Val(backoff') >= 30
            /\ Val(backoff') <= 180
            /\ Val(backoff) < 180 => Val(backoff') > Val(backoff)
            /\ Val(backoff) = 180 => Val(backoff') = 180]_vars
    /\ [][(InLoop /\ backoff' # backoff) =>
            RetryableFailure(event') \/ event'.op = "cycle_end"]_vars

C20_Witness ==
    /\ POLL_SECONDS = 0
    /\ RetryableFailure(event)
    /\ event.was = Some(180)
    /\ backoff = Some(180)
    /\ pc = "loop"

====
